---- MODULE Spec2Model ----
(***************************************************************************)
(* Virtual file routing layer of khanskiy-project.                         *)
(*                                                                         *)
(* Session Publisher (src/src/app-utils.ts, class VirtualFileSession) and  *)
(* Virtual Router (src/public/sw.js, src/public/sw-utils.js), connected by *)
(* the BroadcastChannel "vfs".                                             *)
(*                                                                         *)
(* JavaScript strings that the code inspects (paths, URL path names,       *)
(* session identifiers, response bodies) are sequences of one-character    *)
(* strings, so that split, join, startsWith, endsWith and the regular      *)
(* expression /^\/+/ are computed as the code computes them.  A JavaScript *)
(* Map is a sequence of [key, value] entries in insertion order.           *)
(***************************************************************************)
EXTENDS Integers, Sequences, FiniteSets, TLC

VARIABLES
    publisherStore,       \* VirtualFileSession.virtualFileStore, per session object
    channel,              \* messages posted on the BroadcastChannel, not yet delivered
    virtualFileSessions,  \* the Router's Map: session id -> Map(path -> descriptor)
    mountLog,             \* history: per session object, the file lists passed to mount
    posted,               \* history: number of messages posted so far
    lastRequest,          \* path name of the fetch event handled last (<<>>: none yet)
    lastResponse,         \* what the fetch listener did with it
    probe,                \* a call of one of the pure utilities: its input and results
    poll,                 \* the activation of waitForEntryModule (runner-utils.js)
    host                  \* the state of the App component and its activations

vars == <<publisherStore, channel, virtualFileSessions, mountLog, posted,
          lastRequest, lastResponse, probe, poll, host>>

(***************************************************************************)
(* Bounds                                                                   *)
(***************************************************************************)
MaxPosts == 2
MaxChannel == 2

(***************************************************************************)
(* String helpers (JavaScript String methods)                              *)
(***************************************************************************)
startsWith(s, prefix) ==
    /\ Len(prefix) <= Len(s)
    /\ SubSeq(s, 1, Len(prefix)) = prefix

endsWith(s, suffix) ==
    /\ Len(suffix) <= Len(s)
    /\ SubSeq(s, Len(s) - Len(suffix) + 1, Len(s)) = suffix

\* s.replace(/^\/+/, "")
RECURSIVE stripLeadingSlashes(_)
stripLeadingSlashes(s) ==
    IF s # <<>> /\ Head(s) = "/" THEN stripLeadingSlashes(Tail(s)) ELSE s

\* s.split("/"), scanning from character i with the current segment cur
RECURSIVE splitFrom(_, _, _, _)
splitFrom(s, i, cur, acc) ==
    IF i > Len(s) THEN Append(acc, cur)
    ELSE IF s[i] = "/" THEN splitFrom(s, i + 1, <<>>, Append(acc, cur))
    ELSE splitFrom(s, i + 1, Append(cur, s[i]), acc)

split(s) == splitFrom(s, 1, <<>>, <<>>)

\* segments.join("/")
RECURSIVE join(_)
join(segments) ==
    IF segments = <<>> THEN <<>>
    ELSE IF Len(segments) = 1 THEN segments[1]
    ELSE segments[1] \o <<"/">> \o join(Tail(segments))

\* array.slice(n) with 0-based n
slice(array, n) ==
    IF n >= Len(array) THEN <<>> ELSE SubSeq(array, n + 1, Len(array))

(***************************************************************************)
(* JavaScript Map                                                           *)
(***************************************************************************)
MapHas(m, k) == \E i \in 1..Len(m) : m[i].key = k

MapGet(m, k) == m[CHOOSE i \in 1..Len(m) : m[i].key = k].value

MapSet(m, k, v) ==
    IF MapHas(m, k)
    THEN [i \in 1..Len(m) |-> IF m[i].key = k THEN [key |-> k, value |-> v] ELSE m[i]]
    ELSE Append(m, [key |-> k, value |-> v])

MapKeys(m) == [i \in 1..Len(m) |-> m[i].key]

MapValues(m) == [i \in 1..Len(m) |-> m[i].value]

KeySet(m) == {m[i].key : i \in 1..Len(m)}

(***************************************************************************)
(* Constants of sw-utils.js and app-utils.ts                               *)
(***************************************************************************)
virtualNamespacePrefix == <<"/", "v", "i", "r", "t", "u", "a", "l", "/">>
pingSegment == <<"_", "_", "p", "i", "n", "g">>
listSegment == <<"_", "_", "l", "i", "s", "t">>
pingResponseBody == <<"o", "k">>
pingResponseContentType == "text/plain"
listResponseContentType == "application/json"
defaultIndexFileName == <<"i", "n", "d", "e", "x", ".", "j", "s">>
defaultMimeType == "text/plain"
sessionNotFoundMessage ==
    <<"S", "e", "s", "s", "i", "o", "n", " ", "n", "o", "t", " ",
      "f", "o", "u", "n", "d">>
notFoundMessagePrefix == <<"N", "o", "t", " ", "f", "o", "u", "n", "d", ":", " ">>

\* MIME_TYPE_BY_EXTENSION, in Object.entries order
MIME_TYPE_BY_EXTENSION ==
    << [extension |-> <<".", "j", "s">>,           mimeType |-> "text/javascript"],
       [extension |-> <<".", "m", "j", "s">>,      mimeType |-> "text/javascript"],
       [extension |-> <<".", "j", "s", "o", "n">>, mimeType |-> "application/json"],
       [extension |-> <<".", "c", "s", "s">>,      mimeType |-> "text/css"],
       [extension |-> <<".", "h", "t", "m", "l">>, mimeType |-> "text/html"] >>

\* Content-Type a Response gets from a string body when no header is given
implicitTextContentType == "text/plain;charset=UTF-8"

(***************************************************************************)
(* sw-utils.js                                                              *)
(***************************************************************************)
\* the first entry of MIME_TYPE_BY_EXTENSION from index i on whose extension
\* is a suffix of the path
RECURSIVE mimeTypeFromEntry(_, _)
mimeTypeFromEntry(virtualFilePath, i) ==
    IF i > Len(MIME_TYPE_BY_EXTENSION) THEN defaultMimeType
    ELSE IF endsWith(virtualFilePath, MIME_TYPE_BY_EXTENSION[i].extension)
         THEN MIME_TYPE_BY_EXTENSION[i].mimeType
         ELSE mimeTypeFromEntry(virtualFilePath, i + 1)

determineMimeTypeFromPath(virtualFilePath) == mimeTypeFromEntry(virtualFilePath, 1)

\* variant: the leading slashes are removed and none is put in front
normalizeVirtualFilePath_noRoot(rawVirtualFilePath) ==
    stripLeadingSlashes(rawVirtualFilePath)

\* variant: the regular expression /^\// removes one leading slash only
normalizeVirtualFilePath_oneSlash(rawVirtualFilePath) ==
    <<"/">> \o (IF rawVirtualFilePath # <<>> /\ Head(rawVirtualFilePath) = "/"
                THEN Tail(rawVirtualFilePath)
                ELSE rawVirtualFilePath)

\* String(raw || "").replace(/^\/+/, "") with "/" in front
normalizeVirtualFilePath(rawVirtualFilePath) ==
    <<"/">> \o stripLeadingSlashes(rawVirtualFilePath)

\* the for-of loop of createVirtualFileStoreMap from descriptor i on
RECURSIVE storeMapFrom(_, _, _)
storeMapFrom(fileDescriptors, i, virtualFileStoreMap) ==
    IF i > Len(fileDescriptors) THEN virtualFileStoreMap
    ELSE storeMapFrom(fileDescriptors, i + 1,
            MapSet(virtualFileStoreMap,
                   normalizeVirtualFilePath(fileDescriptors[i].path),
                   fileDescriptors[i]))

createVirtualFileStoreMap(fileDescriptors) == storeMapFrom(fileDescriptors, 1, <<>>)

\* variant: the prefix test also demands a character after the prefix
isVirtualNamespacePath_needsIdentifier(pathname) ==
    /\ startsWith(pathname, virtualNamespacePrefix)
    /\ Len(pathname) > Len(virtualNamespacePrefix)

\* variant: the prefix is tested without its trailing slash
isVirtualNamespacePath_withoutSlash(pathname) ==
    startsWith(pathname, SubSeq(virtualNamespacePrefix, 1,
                                Len(virtualNamespacePrefix) - 1))

isVirtualNamespacePath(pathname) == startsWith(pathname, virtualNamespacePrefix)

\* variant: the ping test compares with the list token
isPingRequest_listToken(pathSegments) ==
    /\ Len(pathSegments) = 1
    /\ pathSegments[1] = listSegment

\* variant: the ping token is recognised as the last of several segments
isPingRequest_lastSegment(pathSegments) ==
    /\ Len(pathSegments) >= 1
    /\ pathSegments[Len(pathSegments)] = pingSegment

isPingRequest(pathSegments) ==
    /\ Len(pathSegments) = 1
    /\ pathSegments[1] = pingSegment

isListRequest(pathSegments) ==
    /\ Len(pathSegments) = 1
    /\ pathSegments[1] = listSegment

buildNotFoundMessage(virtualFilePath) == notFoundMessagePrefix \o virtualFilePath

(***************************************************************************)
(* JSON.stringify of the __list payload {id, count, keys}                   *)
(***************************************************************************)
Digit(n) == <<"0", "1", "2", "3", "4", "5", "6", "7", "8", "9">>[n + 1]

RECURSIVE decimal(_)
decimal(n) == IF n < 10 THEN <<Digit(n)>> ELSE decimal(n \div 10) \o <<Digit(n % 10)>>

quoted(s) == <<"\"">> \o s \o <<"\"">>

RECURSIVE quotedList(_)
quotedList(strings) ==
    IF strings = <<>> THEN <<>>
    ELSE IF Len(strings) = 1 THEN quoted(strings[1])
    ELSE quoted(strings[1]) \o <<",">> \o quotedList(Tail(strings))

jsonStringify(payload) ==
    <<"{">> \o quoted(<<"i", "d">>) \o <<":">> \o quoted(payload.id) \o <<",">>
      \o quoted(<<"c", "o", "u", "n", "t">>) \o <<":">> \o decimal(payload.count) \o <<",">>
      \o quoted(<<"k", "e", "y", "s">>) \o <<":", "[">> \o quotedList(payload.keys)
      \o <<"]", "}">>

(***************************************************************************)
(* sw.js: responses                                                         *)
(***************************************************************************)
noPayload == [id |-> <<>>, count |-> 0, keys |-> <<>>]

\* new Response(body, {status, headers}); payload is the object the body was
\* serialised from (noPayload for a text body)
Response(body, status, contentType, payload) ==
    [answers |-> 1, status |-> status, contentType |-> contentType,
     body |-> body, payload |-> payload]

\* the fetch listener returned without respondWith
notIntercepted ==
    [answers |-> 0, status |-> 0, contentType |-> "", body |-> <<>>,
     payload |-> noPayload]

createPingResponse == Response(pingResponseBody, 200, pingResponseContentType, noPayload)

\* variant: an unknown session is answered 404 by __list as well
createListResponse_unknownIs404(virtualFileSessionIdentifier, hasStore, virtualFileStore) ==
    IF ~hasStore
    THEN Response(sessionNotFoundMessage, 404, implicitTextContentType, noPayload)
    ELSE LET responsePayload == [id |-> virtualFileSessionIdentifier,
                                 count |-> Len(MapKeys(virtualFileStore)),
                                 keys |-> MapKeys(virtualFileStore)]
         IN Response(jsonStringify(responsePayload), 200, listResponseContentType,
                     responsePayload)

createListResponse(virtualFileSessionIdentifier, hasStore, virtualFileStore) ==
    LET availableFilePaths == IF hasStore THEN MapKeys(virtualFileStore) ELSE <<>>
        responsePayload == [id |-> virtualFileSessionIdentifier,
                            count |-> Len(availableFilePaths),
                            keys |-> availableFilePaths]
    IN Response(jsonStringify(responsePayload), 200, listResponseContentType,
                responsePayload)

\* variant: the status option is left out, so the Response has status 200
createSessionNotFoundResponse_noStatus ==
    Response(sessionNotFoundMessage, 200, implicitTextContentType, noPayload)

createSessionNotFoundResponse ==
    Response(sessionNotFoundMessage, 404, implicitTextContentType, noPayload)

\* variant: no default index file name for a directory path
buildRequestedVirtualFilePath_noIndex(virtualFilePathSegments) ==
    <<"/">> \o join(virtualFilePathSegments)

buildRequestedVirtualFilePath(virtualFilePathSegments) ==
    LET joinedVirtualFilePath == <<"/">> \o join(virtualFilePathSegments)
    IN IF ~endsWith(joinedVirtualFilePath, <<"/">>)
       THEN joinedVirtualFilePath
       ELSE joinedVirtualFilePath \o defaultIndexFileName

\* variant: the .js candidate is tried first
candidateVirtualFilePaths_suffixFirst(requestedVirtualFilePath) ==
    << requestedVirtualFilePath \o <<".", "j", "s">>, requestedVirtualFilePath >>

candidateVirtualFilePaths(requestedVirtualFilePath) ==
    << requestedVirtualFilePath, requestedVirtualFilePath \o <<".", "j", "s">> >>

\* variant: a descriptor without a type is served with the default MIME type
createVirtualFileResponse_defaultType(virtualFileDescriptor, candidateVirtualFilePath) ==
    LET responseContentType ==
            IF virtualFileDescriptor.type # ""
            THEN virtualFileDescriptor.type
            ELSE defaultMimeType
    IN Response(virtualFileDescriptor.content, 200, responseContentType, noPayload)

\* the response for the candidate that matched
createVirtualFileResponse(virtualFileDescriptor, candidateVirtualFilePath) ==
    LET responseContentType ==
            IF virtualFileDescriptor.type # ""
            THEN virtualFileDescriptor.type
            ELSE determineMimeTypeFromPath(candidateVirtualFilePath)
    IN Response(virtualFileDescriptor.content, 200, responseContentType, noPayload)

\* variant: a miss names the last candidate tried
createVirtualFileNotFoundResponse_namesLastCandidate(requestedVirtualFilePath) ==
    Response(buildNotFoundMessage(requestedVirtualFilePath \o <<".", "j", "s">>), 404,
             implicitTextContentType, noPayload)

\* the response when no candidate matched
createVirtualFileNotFoundResponse(requestedVirtualFilePath) ==
    Response(buildNotFoundMessage(requestedVirtualFilePath), 404,
             implicitTextContentType, noPayload)

\* the for-of loop over the candidates from candidate i on
RECURSIVE resolveCandidates(_, _, _, _)
resolveCandidates(virtualFileStore, candidates, i, requestedVirtualFilePath) ==
    IF i > Len(candidates)
    THEN createVirtualFileNotFoundResponse(requestedVirtualFilePath)
    ELSE IF ~MapHas(virtualFileStore, candidates[i])
         THEN resolveCandidates(virtualFileStore, candidates, i + 1,
                                requestedVirtualFilePath)
         ELSE createVirtualFileResponse(MapGet(virtualFileStore, candidates[i]),
                                        candidates[i])

\* pathnameSegments[2] (undefined, like "", is falsy)
sessionIdentifierOf(pathnameSegments) ==
    IF Len(pathnameSegments) >= 3 THEN pathnameSegments[3] ELSE <<>>

handleVirtualRequest(pathname, sessions) ==
    LET pathnameSegments == split(pathname)
        virtualFileSessionIdentifier == sessionIdentifierOf(pathnameSegments)
        virtualFilePathSegments == slice(pathnameSegments, 3)
        hasStore == MapHas(sessions, virtualFileSessionIdentifier)
        virtualFileStore == IF hasStore
                            THEN MapGet(sessions, virtualFileSessionIdentifier)
                            ELSE <<>>
        requestedVirtualFilePath == buildRequestedVirtualFilePath(virtualFilePathSegments)
    IN IF virtualFileSessionIdentifier = <<>> THEN createSessionNotFoundResponse
       ELSE IF isPingRequest(virtualFilePathSegments) THEN createPingResponse
       ELSE IF isListRequest(virtualFilePathSegments)
            THEN createListResponse(virtualFileSessionIdentifier, hasStore,
                                    virtualFileStore)
       ELSE IF ~hasStore THEN createSessionNotFoundResponse
       ELSE resolveCandidates(virtualFileStore,
                              candidateVirtualFilePaths(requestedVirtualFilePath), 1,
                              requestedVirtualFilePath)

(***************************************************************************)
(* app-utils.ts: the Session Publisher                                      *)
(***************************************************************************)
\* MIME_TYPE_BY_EXTENSION of app-utils.ts, in Object.entries order
APP_MIME_TYPE_BY_EXTENSION ==
    << [extension |-> <<".", "j", "s">>,           mimeType |-> "text/javascript"],
       [extension |-> <<".", "m", "j", "s">>,      mimeType |-> "text/javascript"],
       [extension |-> <<".", "j", "s", "o", "n">>, mimeType |-> "application/json"],
       [extension |-> <<".", "c", "s", "s">>,      mimeType |-> "text/css"],
       [extension |-> <<".", "h", "t", "m", "l">>, mimeType |-> "text/html"] >>

upperCaseLetters ==
    <<"A", "B", "C", "D", "E", "F", "G", "H", "I", "J", "K", "L", "M",
      "N", "O", "P", "Q", "R", "S", "T", "U", "V", "W", "X", "Y", "Z">>

lowerCaseLetters ==
    <<"a", "b", "c", "d", "e", "f", "g", "h", "i", "j", "k", "l", "m",
      "n", "o", "p", "q", "r", "s", "t", "u", "v", "w", "x", "y", "z">>

\* String.prototype.toLowerCase
toLowerCase(s) ==
    [i \in 1..Len(s) |->
        IF \E k \in 1..26 : upperCaseLetters[k] = s[i]
        THEN lowerCaseLetters[CHOOSE k \in 1..26 : upperCaseLetters[k] = s[i]]
        ELSE s[i]]

\* the first entry of the table from index i on whose extension is a suffix
\* of the lower-cased path
RECURSIVE appMimeTypeFromEntry(_, _)
appMimeTypeFromEntry(filePath, i) ==
    IF i > Len(APP_MIME_TYPE_BY_EXTENSION) THEN ""
    ELSE IF endsWith(filePath, APP_MIME_TYPE_BY_EXTENSION[i].extension)
         THEN APP_MIME_TYPE_BY_EXTENSION[i].mimeType
         ELSE appMimeTypeFromEntry(filePath, i + 1)

determineMimeTypeForPath(virtualFilePath) ==
    appMimeTypeFromEntry(toLowerCase(virtualFilePath), 1)

\* variant: the regular expression /^\// removes one leading slash only
appNormalizeVirtualFilePath_oneSlash(rawVirtualFilePath) ==
    <<"/">> \o (IF rawVirtualFilePath # <<>> /\ Head(rawVirtualFilePath) = "/"
                THEN Tail(rawVirtualFilePath)
                ELSE rawVirtualFilePath)

\* (raw || "").replace(/^\/+/, "") with "/" in front
appNormalizeVirtualFilePath(rawVirtualFilePath) ==
    <<"/">> \o stripLeadingSlashes(rawVirtualFilePath)

\* the for-of loop of mount from descriptor i on
RECURSIVE mountFrom(_, _, _)
mountFrom(virtualFileDescriptors, i, store) ==
    IF i > Len(virtualFileDescriptors) THEN store
    ELSE LET normalizedVirtualFilePath ==
                 appNormalizeVirtualFilePath(virtualFileDescriptors[i].path)
             normalizedVirtualFileDescriptor ==
                 [virtualFileDescriptors[i] EXCEPT !.path = normalizedVirtualFilePath]
         IN mountFrom(virtualFileDescriptors, i + 1,
                      MapSet(store, normalizedVirtualFilePath,
                             normalizedVirtualFileDescriptor))

\* virtualFileStore.clear() and the loop
mountedStore(virtualFileDescriptors) == mountFrom(virtualFileDescriptors, 1, <<>>)

getBasePath(sessionIdentifier) == virtualNamespacePrefix \o sessionIdentifier

\* variant: the leading slashes of the relative path are kept
buildFileUrl_keepsSlashes(sessionIdentifier, relativeFilePath) ==
    getBasePath(sessionIdentifier) \o <<"/">> \o relativeFilePath

buildFileUrl(sessionIdentifier, relativeFilePath) ==
    getBasePath(sessionIdentifier) \o <<"/">> \o stripLeadingSlashes(relativeFilePath)

\* the options of the select element
SetOfPaths(paths) == { paths[i] : i \in 1..Len(paths) }

\* createVirtualFileDescriptors: the descriptor of each selected file, with
\* the MIME type the Publisher infers from its relative path
createVirtualFileDescriptors(selectedFiles) ==
    [i \in 1..Len(selectedFiles) |->
        [path |-> selectedFiles[i].path,
         content |-> selectedFiles[i].content,
         type |-> determineMimeTypeForPath(selectedFiles[i].path)]]

\* the place of a character in the order localeCompare sorts by, for the
\* characters of lower-case file names: "_" < "." < "/" < digits < letters
localeCompareCharacters ==
    << "_", ".", "/", "0", "1", "2", "3", "4", "5", "6", "7", "8", "9" >>
        \o lowerCaseLetters

localeCompareRank(character) ==
    CHOOSE k \in 1..Len(localeCompareCharacters) :
        localeCompareCharacters[k] = character

\* leftPath.localeCompare(rightPath) < 0
RECURSIVE localeCompareBefore(_, _)
localeCompareBefore(leftPath, rightPath) ==
    IF rightPath = <<>> THEN FALSE
    ELSE IF leftPath = <<>> THEN TRUE
    ELSE IF leftPath[1] = rightPath[1]
         THEN localeCompareBefore(Tail(leftPath), Tail(rightPath))
         ELSE localeCompareRank(leftPath[1]) < localeCompareRank(rightPath[1])

\* Array.prototype.sort is stable: a path is inserted after the paths that
\* do not sort after it
RECURSIVE sortInsert(_, _)
sortInsert(sortedPaths, path) ==
    IF sortedPaths = <<>> THEN <<path>>
    ELSE IF localeCompareBefore(path, sortedPaths[1])
         THEN <<path>> \o sortedPaths
         ELSE <<sortedPaths[1]>> \o sortInsert(Tail(sortedPaths), path)

RECURSIVE sortFrom(_, _, _)
sortFrom(paths, i, sortedPaths) ==
    IF i > Len(paths) THEN sortedPaths
    ELSE sortFrom(paths, i + 1, sortInsert(sortedPaths, paths[i]))

deriveJavaScriptFilePaths(virtualFileDescriptors) ==
    LET normalizedVirtualFilePaths ==
            [i \in 1..Len(virtualFileDescriptors) |->
                appNormalizeVirtualFilePath(virtualFileDescriptors[i].path)]
        isJavaScript(virtualFilePath) ==
            \/ endsWith(virtualFilePath, <<".", "j", "s">>)
            \/ endsWith(virtualFilePath, <<".", "m", "j", "s">>)
    IN sortFrom(SelectSeq(normalizedVirtualFilePaths, isJavaScript), 1, <<>>)

\* mainEntryFilePattern and indexEntryFilePattern: /(^|\/)<name>\.m?js$/i
mainEntryFileName == <<"m", "a", "i", "n">>
indexEntryFileName == <<"i", "n", "d", "e", "x">>

\* RegExp.prototype.test for the pattern /(^|\/)<name>\.m?js$/i
entryFilePatternTest(entryFileName, filePath) ==
    LET lowered == toLowerCase(filePath)
    IN \E suffix \in { entryFileName \o <<".", "j", "s">>,
                       entryFileName \o <<".", "m", "j", "s">> } :
           /\ endsWith(lowered, suffix)
           /\ \/ Len(lowered) = Len(suffix)
              \/ lowered[Len(lowered) - Len(suffix)] = "/"

\* Array.prototype.find with the test of a pattern: the index of the first
\* match, 0 for undefined
findEntryMatch(javaScriptFilePaths, entryFileName) ==
    LET matches == { i \in 1..Len(javaScriptFilePaths) :
                         entryFilePatternTest(entryFileName, javaScriptFilePaths[i]) }
    IN IF matches = {} THEN 0
       ELSE CHOOSE i \in matches : \A j \in matches : i <= j

\* variant: index.js is preferred to main.js
selectPreferredEntryFilePath_indexFirst(javaScriptFilePaths) ==
    LET mainEntryMatch == findEntryMatch(javaScriptFilePaths, mainEntryFileName)
        indexEntryMatch == findEntryMatch(javaScriptFilePaths, indexEntryFileName)
    IN IF Len(javaScriptFilePaths) = 0 THEN <<>>
       ELSE IF indexEntryMatch # 0 THEN javaScriptFilePaths[indexEntryMatch]
       ELSE IF mainEntryMatch # 0 THEN javaScriptFilePaths[mainEntryMatch]
       ELSE javaScriptFilePaths[1]

selectPreferredEntryFilePath(javaScriptFilePaths) ==
    LET mainEntryMatch == findEntryMatch(javaScriptFilePaths, mainEntryFileName)
        indexEntryMatch == findEntryMatch(javaScriptFilePaths, indexEntryFileName)
    IN IF Len(javaScriptFilePaths) = 0 THEN <<>>
       ELSE IF mainEntryMatch # 0 THEN javaScriptFilePaths[mainEntryMatch]
       ELSE IF indexEntryMatch # 0 THEN javaScriptFilePaths[indexEntryMatch]
       ELSE javaScriptFilePaths[1]

\* encodeURIComponent for the characters of an entry URL: ":" and "/" are
\* escaped, letters, digits, "_" and "." are kept
RECURSIVE encodeURIComponent(_)
encodeURIComponent(s) ==
    IF s = <<>> THEN <<>>
    ELSE (IF s[1] = "/" THEN <<"%", "2", "F">>
          ELSE IF s[1] = ":" THEN <<"%", "3", "A">>
          ELSE <<s[1]>>) \o encodeURIComponent(Tail(s))

runnerPagePath == <<"/", "r", "u", "n", "n", "e", "r", ".", "h", "t", "m", "l">>
runnerEntryQueryParameter == <<"e", "n", "t", "r", "y">>
serviceWorkerPingSuccessValue == <<"o", "k">>

buildRunnerPageUrl(entryModuleUrl) ==
    runnerPagePath \o <<"?">> \o runnerEntryQueryParameter \o <<"=">>
        \o encodeURIComponent(entryModuleUrl)

(***************************************************************************)
(* Inputs                                                                   *)
(***************************************************************************)
\* values of VirtualFileSession.sessionIdentifier of the session objects
SessionIdentifiers == { <<"s">>, <<"t">> }

path_util == <<"u", "t", "i", "l">>
path_util_js == <<"u", "t", "i", "l", ".", "j", "s">>
path_main_js == <<"m", "a", "i", "n", ".", "j", "s">>
path_index_js == <<"i", "n", "d", "e", "x", ".", "j", "s">>
path_dir == <<"d", "i", "r">>

File(path, content, type) == [path |-> path, content |-> content, type |-> type]

\* file lists passed to mount
FileLists ==
    { <<>>,
      << File(path_util, <<"X">>, ""), File(path_util_js, <<"Y">>, "") >>,
      << File(path_index_js, <<"X">>, ""),
         File(path_dir \o <<"/">> \o path_index_js, <<"Y">>, "text/javascript"),
         File(pingSegment, <<"P">>, ""),
         File(path_dir \o <<"/">> \o pingSegment, <<"Q">>, "application/json"),
         File(listSegment, <<"L">>, "") >>,
      << File(<<"/">> \o path_util_js, <<"X">>, ""),
         File(<<"/", "/">> \o path_util_js, <<"Y">>, ""),
         File(path_main_js, <<"Z">>, ""),
         File(path_dir \o <<"/", "/">> \o path_util, <<"D">>, "") >> }

\* a message as the Router's onmessage sees it: isArray is
\* Array.isArray(data.files), id is "" when data.id is missing
Message(id, isArray, files) == [id |-> id, isArray |-> isArray, files |-> files]

\* malformed traffic on the channel
ForeignMessages ==
    { Message(<<>>, TRUE, << File(path_util_js, <<"Y">>, "") >>),
      Message(<<"s">>, FALSE, <<>>) }

\* a session identifier no session object has
unknownIdentifier == <<"u">>

\* what follows "/virtual/<id>/" in the requests to a session
RequestTails ==
    { <<>>,
      pingSegment,
      listSegment,
      path_util,
      path_util_js,
      path_main_js,
      path_dir \o <<"/">>,
      path_dir \o <<"/">> \o pingSegment,
      <<"/">> }

\* URL.pathname of the fetch events
RequestPathnames ==
    { virtualNamespacePrefix \o id \o <<"/">> \o tail :
          id \in SessionIdentifiers, tail \in RequestTails }
    \cup { virtualNamespacePrefix \o id \o <<"/">> \o tail :
          id \in { unknownIdentifier, <<>> },
          tail \in { pingSegment, listSegment, path_util } }
    \cup { virtualNamespacePrefix \o id : id \in { <<"s">>, <<>> } }
    \cup { <<"/", "v", "i", "r", "t", "u", "a", "l">>,
           <<"/", "s", "w", ".", "j", "s">> }

(***************************************************************************)
(* State machine                                                            *)
(***************************************************************************)
\* no utility has been called
noProbe == [kind |-> "none"]

\* a status message: one of the fixed messages, or a prefix and its argument
StatusMessage(message, argument) == [message |-> message, argument |-> argument]

\* the App component after its first render: no session, no entry, status
\* idle, an empty iframe, the page not yet controlled by the service
\* worker, no handler active
noHost ==
    [virtualFileSession |-> <<>>,
     javaScriptFilePaths |-> <<>>,
     entryFilePath |-> <<>>,
     statusMessage |-> StatusMessage("idle", <<>>),
     iframe |-> [sandbox |-> "", src |-> <<>>],
     controlled |-> FALSE,
     selection |-> [pc |-> "idle"],
     run |-> [pc |-> "idle"],
     lastRun |-> [outcome |-> "none"],
     runs |-> 0]

\* waitForEntryModule has not been called
noPoll == [pc |-> "idle"]

Init ==
    /\ publisherStore = [s \in SessionIdentifiers |-> <<>>]
    /\ channel = <<>>
    /\ virtualFileSessions = <<>>
    /\ mountLog = [s \in SessionIdentifiers |-> <<>>]
    /\ posted = 0
    /\ lastRequest = <<>>
    /\ lastResponse = notIntercepted
    /\ probe = noProbe
    /\ poll = noPoll
    /\ host = noHost

\* lastRequest and lastResponse observe the request handled in the current
\* state of the Publisher, the channel and the Router: every channel event
\* starts a new observation
NewObservation ==
    /\ lastRequest' = <<>>
    /\ lastResponse' = notIntercepted

\* variant: mount does not clear the store before the loop
Mount_noClear(s, virtualFileDescriptors) ==
    /\ posted < MaxPosts
    /\ Len(channel) < MaxChannel
    /\ publisherStore' = [publisherStore EXCEPT
                              ![s] = mountFrom(virtualFileDescriptors, 1, publisherStore[s])]
    /\ channel' = Append(channel, Message(s, TRUE, MapValues(publisherStore'[s])))
    /\ mountLog' = [mountLog EXCEPT ![s] = Append(@, virtualFileDescriptors)]
    /\ posted' = posted + 1
    /\ NewObservation
    /\ UNCHANGED <<virtualFileSessions, probe, poll, host>>

\* VirtualFileSession.mount of the session object with identifier s
Mount(s, virtualFileDescriptors) ==
    /\ posted < MaxPosts
    /\ Len(channel) < MaxChannel
    /\ publisherStore' = [publisherStore EXCEPT ![s] = mountedStore(virtualFileDescriptors)]
    /\ channel' = Append(channel, Message(s, TRUE, MapValues(publisherStore'[s])))
    /\ mountLog' = [mountLog EXCEPT ![s] = Append(@, virtualFileDescriptors)]
    /\ posted' = posted + 1
    /\ NewObservation
    /\ UNCHANGED <<virtualFileSessions, probe, poll, host>>

\* another page posts a malformed message on the channel
PostForeign(message) ==
    /\ posted < MaxPosts
    /\ Len(channel) < MaxChannel
    /\ channel' = Append(channel, message)
    /\ posted' = posted + 1
    /\ NewObservation
    /\ UNCHANGED <<publisherStore, virtualFileSessions, mountLog, probe, poll, host>>

\* variant: the files of a message are added to the table the session
\* already has
OnMessage_mergeIntoOld ==
    /\ channel # <<>>
    /\ LET eventData == Head(channel)
           virtualFileSessionIdentifier == eventData.id
           virtualFileDescriptors == eventData.files
           oldStore == IF MapHas(virtualFileSessions, virtualFileSessionIdentifier)
                       THEN MapGet(virtualFileSessions, virtualFileSessionIdentifier)
                       ELSE <<>>
       IN virtualFileSessions' =
              IF virtualFileSessionIdentifier = <<>> THEN virtualFileSessions
              ELSE IF ~eventData.isArray THEN virtualFileSessions
              ELSE IF Len(virtualFileDescriptors) = 0 THEN virtualFileSessions
              ELSE MapSet(virtualFileSessions, virtualFileSessionIdentifier,
                          storeMapFrom(virtualFileDescriptors, 1, oldStore))
    /\ channel' = Tail(channel)
    /\ NewObservation
    /\ UNCHANGED <<publisherStore, mountLog, posted, probe, poll, host>>

\* variant: no Array.isArray test, so the empty Map that
\* createVirtualFileStoreMap returns for a non-array is stored
OnMessage_noArrayGuard ==
    /\ channel # <<>>
    /\ LET eventData == Head(channel)
           virtualFileSessionIdentifier == eventData.id
           virtualFileDescriptors == eventData.files
       IN virtualFileSessions' =
              IF virtualFileSessionIdentifier = <<>> THEN virtualFileSessions
              ELSE IF ~eventData.isArray
                   THEN MapSet(virtualFileSessions, virtualFileSessionIdentifier, <<>>)
              ELSE IF Len(virtualFileDescriptors) = 0 THEN virtualFileSessions
              ELSE MapSet(virtualFileSessions, virtualFileSessionIdentifier,
                          createVirtualFileStoreMap(virtualFileDescriptors))
    /\ channel' = Tail(channel)
    /\ NewObservation
    /\ UNCHANGED <<publisherStore, mountLog, posted, probe, poll, host>>

\* variant: an announcement with no files removes the session
OnMessage_emptyDeletes ==
    /\ channel # <<>>
    /\ LET eventData == Head(channel)
           virtualFileSessionIdentifier == eventData.id
           virtualFileDescriptors == eventData.files
       IN virtualFileSessions' =
              IF virtualFileSessionIdentifier = <<>> THEN virtualFileSessions
              ELSE IF ~eventData.isArray THEN virtualFileSessions
              ELSE IF Len(virtualFileDescriptors) = 0
                   THEN SelectSeq(virtualFileSessions,
                                  LAMBDA entry : entry.key # virtualFileSessionIdentifier)
              ELSE MapSet(virtualFileSessions, virtualFileSessionIdentifier,
                          createVirtualFileStoreMap(virtualFileDescriptors))
    /\ channel' = Tail(channel)
    /\ NewObservation
    /\ UNCHANGED <<publisherStore, mountLog, posted, probe, poll, host>>

\* variant: the announcement replaces the whole SessionTable
OnMessage_replacesAllSessions ==
    /\ channel # <<>>
    /\ LET eventData == Head(channel)
           virtualFileSessionIdentifier == eventData.id
           virtualFileDescriptors == eventData.files
       IN virtualFileSessions' =
              IF virtualFileSessionIdentifier = <<>> THEN virtualFileSessions
              ELSE IF ~eventData.isArray THEN virtualFileSessions
              ELSE IF Len(virtualFileDescriptors) = 0 THEN virtualFileSessions
              ELSE MapSet(<<>>, virtualFileSessionIdentifier,
                          createVirtualFileStoreMap(virtualFileDescriptors))
    /\ channel' = Tail(channel)
    /\ NewObservation
    /\ UNCHANGED <<publisherStore, mountLog, posted, probe, poll, host>>

\* virtualFileSystemBroadcastChannel.onmessage
OnMessage ==
    /\ channel # <<>>
    /\ LET eventData == Head(channel)
           virtualFileSessionIdentifier == eventData.id
           virtualFileDescriptors == eventData.files
       IN virtualFileSessions' =
              IF virtualFileSessionIdentifier = <<>> THEN virtualFileSessions
              ELSE IF ~eventData.isArray THEN virtualFileSessions
              ELSE IF Len(virtualFileDescriptors) = 0 THEN virtualFileSessions
              ELSE MapSet(virtualFileSessions, virtualFileSessionIdentifier,
                          createVirtualFileStoreMap(virtualFileDescriptors))
    /\ channel' = Tail(channel)
    /\ NewObservation
    /\ UNCHANGED <<publisherStore, mountLog, posted, probe, poll, host>>

\* the fetch listener
Fetch(pathname) ==
    /\ lastRequest' = pathname
    /\ lastResponse' = IF ~isVirtualNamespacePath(pathname) THEN notIntercepted
                       ELSE handleVirtualRequest(pathname, virtualFileSessions)
    /\ UNCHANGED <<publisherStore, channel, virtualFileSessions, mountLog, posted,
                   probe, poll, host>>

Next ==
    \/ \E s \in SessionIdentifiers, files \in FileLists : Mount(s, files)
    \/ \E message \in ForeignMessages : PostForeign(message)
    \/ OnMessage
    \/ \E pathname \in RequestPathnames : Fetch(pathname)

Spec == Init /\ [][Next]_vars

(***************************************************************************)
(* Calls of the pure utilities                                              *)
(***************************************************************************)
MaxRawLen == 4

RawAlphabet == { "/", "a", "." }

\* raw paths handed to normalizeVirtualFilePath
RawPaths == UNION { [1..n -> RawAlphabet] : n \in 0..MaxRawLen }

\* paths handed to the MIME utilities: a stem and an extension in some
\* letter case
MimeStems == { <<>>, <<"a">>, <<"/", "d", ".", "j", "s", "/", "b">> }

MimeExtensions ==
    { <<>>,
      <<".", "j", "s">>, <<".", "J", "S">>, <<".", "J", "s">>,
      <<".", "m", "j", "s">>, <<".", "M", "J", "S">>,
      <<".", "j", "s", "o", "n">>, <<".", "J", "S", "O", "N">>,
      <<".", "c", "s", "s">>, <<".", "C", "s", "s">>,
      <<".", "h", "t", "m", "l">>, <<".", "H", "T", "M", "L">>,
      <<".", "t", "x", "t">>, <<".", "j", "s", "x">> }

MimePaths == { stem \o extension : stem \in MimeStems, extension \in MimeExtensions }

\* rawVirtualFilePath || "": a missing path counts as ""
orEmpty(missing, rawVirtualFilePath) == IF missing THEN <<>> ELSE rawVirtualFilePath

\* normalizeVirtualFilePath of sw-utils.js and of app-utils.ts called on a
\* raw path, and again on their results
NormalizeCall(missing, rawVirtualFilePath) ==
    /\ probe' = [kind |-> "normalize",
                 missing |-> missing,
                 input |-> rawVirtualFilePath,
                 router |-> normalizeVirtualFilePath(orEmpty(missing, rawVirtualFilePath)),
                 routerTwice |->
                     normalizeVirtualFilePath(
                         normalizeVirtualFilePath(orEmpty(missing, rawVirtualFilePath))),
                 publisher |->
                     appNormalizeVirtualFilePath(orEmpty(missing, rawVirtualFilePath)),
                 publisherTwice |->
                     appNormalizeVirtualFilePath(
                         appNormalizeVirtualFilePath(orEmpty(missing, rawVirtualFilePath)))]
    /\ UNCHANGED <<publisherStore, channel, virtualFileSessions, mountLog, posted,
                   lastRequest, lastResponse, poll, host>>

\* determineMimeTypeFromPath (sw-utils.js) and determineMimeTypeForPath
\* (app-utils.ts) called on a path
MimeCall(virtualFilePath) ==
    /\ probe' = [kind |-> "mime",
                 input |-> virtualFilePath,
                 router |-> determineMimeTypeFromPath(virtualFilePath),
                 publisher |-> determineMimeTypeForPath(virtualFilePath)]
    /\ UNCHANGED <<publisherStore, channel, virtualFileSessions, mountLog, posted,
                   lastRequest, lastResponse, poll, host>>

\* getBasePath and buildFileUrl of a session called on a relative path, and
\* buildFileUrl called on the same path with one more leading slash
UrlCall(sessionIdentifier, relativeFilePath) ==
    /\ probe = noProbe
    /\ probe' = [kind |-> "url",
                 sessionIdentifier |-> sessionIdentifier,
                 input |-> relativeFilePath,
                 basePath |-> getBasePath(sessionIdentifier),
                 url |-> buildFileUrl(sessionIdentifier, relativeFilePath),
                 urlOfSlashed |->
                     buildFileUrl(sessionIdentifier, <<"/">> \o relativeFilePath)]
    /\ UNCHANGED <<publisherStore, channel, virtualFileSessions, mountLog, posted,
                   lastRequest, lastResponse, poll, host>>

MaxEntryPaths == 3

\* file paths handed to selectPreferredEntryFilePath: main and index files
\* in some letter case and directory, near misses, and the empty string
EntryPaths ==
    { <<>>,
      <<"m", "a", "i", "n", ".", "j", "s">>,
      <<"/", "d", "/", "M", "a", "i", "n", ".", "M", "J", "S">>,
      <<"/", "x", "m", "a", "i", "n", ".", "j", "s">>,
      <<"/", "m", "a", "i", "n", ".", "j", "s", "x">>,
      <<"/", "i", "n", "d", "e", "x", ".", "j", "s">>,
      <<"/", "d", "/", "I", "N", "D", "E", "X", ".", "m", "j", "s">>,
      <<"/", "a", "p", "p", ".", "j", "s">> }

EntryPathLists == UNION { [1..n -> EntryPaths] : n \in 0..MaxEntryPaths }

\* selectPreferredEntryFilePath called on a list of paths
SelectEntryCall(javaScriptFilePaths) ==
    /\ probe = noProbe
    /\ probe' = [kind |-> "entry",
                 input |-> javaScriptFilePaths,
                 result |-> selectPreferredEntryFilePath(javaScriptFilePaths)]
    /\ UNCHANGED <<publisherStore, channel, virtualFileSessions, mountLog, posted,
                   lastRequest, lastResponse, poll, host>>

NextPure ==
    \/ \E rawVirtualFilePath \in RawPaths : NormalizeCall(FALSE, rawVirtualFilePath)
    \/ NormalizeCall(TRUE, <<>>)
    \/ \E virtualFilePath \in MimePaths : MimeCall(virtualFilePath)

SpecPure == Init /\ [][NextPure]_vars

\* one call of a utility of the Publisher side on one input
NextPublisherCall ==
    \/ \E sessionIdentifier \in SessionIdentifiers, relativeFilePath \in RawPaths :
           UrlCall(sessionIdentifier, relativeFilePath)
    \/ \E javaScriptFilePaths \in EntryPathLists : SelectEntryCall(javaScriptFilePaths)

SpecPublisherCall == Init /\ [][NextPublisherCall]_vars

(***************************************************************************)
(* runner-utils.js: the readiness poll                                      *)
(***************************************************************************)
expectedContentTypeKeyword == <<"j", "a", "v", "a", "s", "c", "r", "i", "p", "t">>
waitAttemptCount == 30

\* String.prototype.includes
includes(s, keyword) ==
    \E i \in 1..(Len(s) - Len(keyword) + 1) :
        SubSeq(s, i, i + Len(keyword) - 1) = keyword

contentType_textJavascript == <<"t", "e", "x", "t", "/", "j", "a", "v", "a", "s", "c", "r", "i", "p", "t">>
contentType_applicationJavascript ==
    <<"a", "p", "p", "l", "i", "c", "a", "t", "i", "o", "n", "/", "j", "a", "v", "a", "s", "c", "r", "i", "p", "t", ";", " ", "c", "h", "a", "r", "s", "e", "t", "=", "u", "t", "f", "-", "8">>
contentType_textJavaScriptMixedCase == <<"t", "e", "x", "t", "/", "J", "a", "v", "a", "S", "c", "r", "i", "p", "t">>
contentType_textPlain ==
    <<"t", "e", "x", "t", "/", "p", "l", "a", "i", "n", ";", "c", "h", "a", "r", "s", "e", "t", "=", "U", "T", "F", "-", "8">>
contentType_applicationJson == <<"a", "p", "p", "l", "i", "c", "a", "t", "i", "o", "n", "/", "j", "s", "o", "n">>

\* how a fetch of the entry URL can settle: rejected, or fulfilled with a
\* response that is ok or not and has a content-type header or none
FetchOutcomes ==
    { [settled |-> "rejected", ok |-> FALSE, hasContentType |-> FALSE,
       contentType |-> <<>>] }
    \cup { [settled |-> "fulfilled", ok |-> ok, hasContentType |-> TRUE,
            contentType |-> contentType] :
               ok \in BOOLEAN,
               contentType \in { contentType_textJavascript,
                                 contentType_applicationJavascript,
                                 contentType_textJavaScriptMixedCase,
                                 contentType_textPlain,
                                 contentType_applicationJson } }
    \cup { [settled |-> "fulfilled", ok |-> ok, hasContentType |-> FALSE,
            contentType |-> <<>>] : ok \in BOOLEAN }

\* variant: the ok status of the response is not looked at
isSuccessfulJavaScriptResponse_ignoresOk(response) ==
    LET contentTypeHeaderValue ==
            IF response.hasContentType THEN response.contentType ELSE <<>>
    IN includes(contentTypeHeaderValue, expectedContentTypeKeyword)

isSuccessfulJavaScriptResponse(response) ==
    LET contentTypeHeaderValue ==
            IF response.hasContentType THEN response.contentType ELSE <<>>
    IN /\ response.ok
       /\ includes(contentTypeHeaderValue, expectedContentTypeKeyword)

\* waitForEntryModule is called: attemptIndex = 0 and the loop test
PollCall ==
    /\ poll.pc = "idle"
    /\ poll' = IF 0 < waitAttemptCount
               THEN [pc |-> "fetch", attemptIndex |-> 0, fetches |-> 0,
                     result |-> FALSE]
               ELSE [pc |-> "done", attemptIndex |-> 0, fetches |-> 0,
                     result |-> FALSE]
    /\ UNCHANGED <<publisherStore, channel, virtualFileSessions, mountLog, posted,
                   lastRequest, lastResponse, probe, host>>

\* the awaited fetch settles: return true for a successful JavaScript
\* response, go on to the delay for any other response and for a rejection
PollFetch(outcome) ==
    /\ poll.pc = "fetch"
    /\ poll' = IF outcome.settled = "fulfilled" /\ isSuccessfulJavaScriptResponse(outcome)
               THEN [pc |-> "done", attemptIndex |-> poll.attemptIndex,
                     fetches |-> poll.fetches + 1, result |-> TRUE,
                     outcome |-> outcome]
               ELSE [pc |-> "delay", attemptIndex |-> poll.attemptIndex,
                     fetches |-> poll.fetches + 1, result |-> FALSE,
                     outcome |-> outcome]
    /\ UNCHANGED <<publisherStore, channel, virtualFileSessions, mountLog, posted,
                   lastRequest, lastResponse, probe, host>>

\* the timer fires: attemptIndex += 1 and the loop test; return false when
\* it fails
PollDelay ==
    /\ poll.pc = "delay"
    /\ poll' = IF poll.attemptIndex + 1 < waitAttemptCount
               THEN [poll EXCEPT !.pc = "fetch", !.attemptIndex = @ + 1]
               ELSE [poll EXCEPT !.pc = "done", !.attemptIndex = @ + 1,
                                 !.result = FALSE]
    /\ UNCHANGED <<publisherStore, channel, virtualFileSessions, mountLog, posted,
                   lastRequest, lastResponse, probe, host>>

NextPoll ==
    \/ PollCall
    \/ \E outcome \in FetchOutcomes : PollFetch(outcome)
    \/ PollDelay

\* every awaited fetch settles and every timer fires
SpecPoll == Init /\ [][NextPoll]_vars /\ WF_vars(NextPoll)

(***************************************************************************)
(* The App component (host): directory selection and executeRunner          *)
(***************************************************************************)
MaxRuns == 2

\* window.location.origin
origin == <<"h", ":", "/", "/", "o">>

\* new URL(request.url).pathname of a URL of this origin
pathnameOf(url) == SubSeq(url, Len(origin) + 1, Len(url))

\* the files of a directory the user selects: relative path and text
SelectedFile(path, content) == [path |-> path, content |-> content]

DirectorySelections ==
    { << SelectedFile(path_main_js, <<"M">>), SelectedFile(path_util_js, <<"U">>) >>,
      << SelectedFile(path_dir \o <<"/">> \o path_index_js, <<"I">>),
         SelectedFile(path_util, <<"X">>),
         SelectedFile(<<"a", "p", "p", ".", "m", "j", "s">>, <<"A">>) >>,
      << SelectedFile(<<"n", "o", "t", "e", "s", ".", "t", "x", "t">>, <<"N">>) >>,
      << SelectedFile(path_util_js, <<"U">>),
         SelectedFile(<<"a", "p", "p", ".", "j", "s">>, <<"A">>) >> }

\* what the origin server answers when the service worker does not handle
\* the request: nothing, 404, or the page of the application
rejectedFetch == [settled |-> "rejected", status |-> 0, body |-> <<>>]

NetworkResponses ==
    { rejectedFetch,
      [settled |-> "fulfilled", status |-> 404, body |-> <<"n", "f">>],
      [settled |-> "fulfilled", status |-> 200,
       body |-> <<"<", "h", "t", "m", "l", ">">>] }

\* fetch of a URL of this origin by the page: answered by the Router's fetch
\* listener when the service worker controls the page, by the network
\* otherwise
pageFetch(url, networkResponse) ==
    IF host.controlled /\ isVirtualNamespacePath(pathnameOf(url))
    THEN LET response == handleVirtualRequest(pathnameOf(url), virtualFileSessions)
         IN [settled |-> "fulfilled", status |-> response.status,
             body |-> response.body]
    ELSE networkResponse

\* Response.ok
isOk(response) == response.status >= 200 /\ response.status <= 299

\* activate: clients.claim() makes the service worker the controller of
\* the page
ServiceWorkerClaim ==
    /\ ~host.controlled
    /\ host' = [host EXCEPT !.controlled = TRUE]
    /\ UNCHANGED <<publisherStore, channel, virtualFileSessions, mountLog, posted,
                   lastRequest, lastResponse, probe, poll>>

\* handleDirectorySelection up to the await: a non-empty selection, a new
\* session object with an identifier of its own
DirectorySelectionStart(s, selectedFileList) ==
    /\ host.selection.pc = "idle"
    /\ mountLog[s] = <<>>
    /\ Len(selectedFileList) # 0
    /\ host' = [host EXCEPT
                   !.statusMessage = StatusMessage("reading files", <<>>),
                   !.selection = [pc |-> "reading", sessionIdentifier |-> s,
                                  selectedFileList |-> selectedFileList]]
    /\ UNCHANGED <<publisherStore, channel, virtualFileSessions, mountLog, posted,
                   lastRequest, lastResponse, probe, poll>>

\* handleDirectorySelection after the files are read: mount, then the new
\* session, its JavaScript paths and the preferred entry become the state
DirectorySelectionFinish ==
    /\ host.selection.pc = "reading"
    /\ LET s == host.selection.sessionIdentifier
           virtualFileDescriptors ==
               createVirtualFileDescriptors(host.selection.selectedFileList)
           discoveredJavaScriptFilePaths ==
               deriveJavaScriptFilePaths(virtualFileDescriptors)
       IN /\ publisherStore' = [publisherStore EXCEPT
                                    ![s] = mountedStore(virtualFileDescriptors)]
          /\ channel' = Append(channel, Message(s, TRUE, MapValues(publisherStore'[s])))
          /\ mountLog' = [mountLog EXCEPT ![s] = Append(@, virtualFileDescriptors)]
          /\ posted' = posted + 1
          /\ host' = [host EXCEPT
                         !.virtualFileSession = s,
                         !.javaScriptFilePaths = discoveredJavaScriptFilePaths,
                         !.entryFilePath =
                             selectPreferredEntryFilePath(discoveredJavaScriptFilePaths),
                         !.statusMessage =
                             StatusMessage("loaded files", decimal(Len(virtualFileDescriptors))),
                         !.selection = [pc |-> "idle"]]
    /\ UNCHANGED <<virtualFileSessions, lastRequest, lastResponse, probe, poll>>

\* handleEntrySelection: the user picks another option of the select
EntrySelection(value) ==
    /\ value \in SetOfPaths(host.javaScriptFilePaths)
    /\ value # host.entryFilePath
    /\ host' = [host EXCEPT !.entryFilePath = value]
    /\ UNCHANGED <<publisherStore, channel, virtualFileSessions, mountLog, posted,
                   lastRequest, lastResponse, probe, poll>>

\* executeRunner up to the first await: the guards, the entry URL, and the
\* ping fetch is sent; the session and the entry are those of the render
ExecuteRunnerStart ==
    /\ host.run.pc = "idle"
    /\ host.runs < MaxRuns
    /\ host.virtualFileSession # <<>>
    /\ host.entryFilePath # <<>>
    /\ host' = [host EXCEPT
                   !.runs = @ + 1,
                   !.run = [pc |-> "ping",
                            sessionIdentifier |-> host.virtualFileSession,
                            absoluteEntryModuleUrl |->
                                origin \o buildFileUrl(host.virtualFileSession,
                                                       host.entryFilePath),
                            events |-> <<>>]]
    /\ UNCHANGED <<publisherStore, channel, virtualFileSessions, mountLog, posted,
                   lastRequest, lastResponse, probe, poll>>

\* variant: any text passes the ping check
pingSucceeded_anyText(serviceWorkerPingResponse) ==
    serviceWorkerPingResponse.hasText

\* serviceWorkerPingResponse === "ok" (null after a rejection)
pingSucceeded(serviceWorkerPingResponse) ==
    /\ serviceWorkerPingResponse.hasText
    /\ serviceWorkerPingResponse.text = serviceWorkerPingSuccessValue

\* the ping fetch settles: without the text "ok" the ping failure message
\* is set and executeRunner returns, else the list fetch is sent
ExecuteRunnerPing(networkResponse) ==
    /\ host.run.pc = "ping"
    /\ LET pingResponse ==
               pageFetch(origin \o getBasePath(host.run.sessionIdentifier)
                             \o <<"/">> \o pingSegment,
                         networkResponse)
           serviceWorkerPingResponse ==
               [hasText |-> pingResponse.settled = "fulfilled",
                text |-> pingResponse.body]
       IN IF ~pingSucceeded(serviceWorkerPingResponse)
          THEN host' = [host EXCEPT
                           !.statusMessage = StatusMessage("SW not ready (no ping)", <<>>),
                           !.run = [pc |-> "idle"],
                           !.lastRun = [outcome |-> "ping failed",
                                        sessionIdentifier |-> host.run.sessionIdentifier]]
          ELSE host' = [host EXCEPT
                           !.run = [@ EXCEPT !.pc = "list",
                                             !.events = Append(@, "ping ok")]]
    /\ UNCHANGED <<publisherStore, channel, virtualFileSessions, mountLog, posted,
                   lastRequest, lastResponse, probe, poll>>

\* the list fetch settles: the listing (or null) is logged and the entry
\* fetch is sent
ExecuteRunnerList ==
    /\ host.run.pc = "list"
    /\ host' = [host EXCEPT
                   !.run = [@ EXCEPT !.pc = "entry", !.events = Append(@, "list logged")]]
    /\ UNCHANGED <<publisherStore, channel, virtualFileSessions, mountLog, posted,
                   lastRequest, lastResponse, probe, poll>>

\* the entry fetch settles: without an ok response the entry message is set
\* and executeRunner returns, else the status is running and the iframe
\* gets its sandbox and the runner page as its src
ExecuteRunnerEntry(networkResponse) ==
    /\ host.run.pc = "entry"
    /\ LET fetched == pageFetch(host.run.absoluteEntryModuleUrl, networkResponse)
           hasEntryModuleResponse == fetched.settled = "fulfilled"
           history == [sessionIdentifier |-> host.run.sessionIdentifier,
                       events |-> host.run.events,
                       entryStatus |-> fetched.status,
                       registeredAtEntryFetch |->
                           MapHas(virtualFileSessions, host.run.sessionIdentifier)]
       IN IF ~hasEntryModuleResponse \/ ~isOk(fetched)
          THEN host' = [host EXCEPT
                           !.statusMessage =
                               StatusMessage("entry not reachable: ",
                                             host.run.absoluteEntryModuleUrl),
                           !.run = [pc |-> "idle"],
                           !.lastRun = [outcome |-> "entry failed"] @@ history]
          ELSE host' = [host EXCEPT
                           !.statusMessage = StatusMessage("running", <<>>),
                           !.iframe = [sandbox |-> "allow-scripts allow-same-origin",
                                       src |-> buildRunnerPageUrl(
                                                   host.run.absoluteEntryModuleUrl)],
                           !.run = [pc |-> "idle"],
                           !.lastRun = [outcome |-> "launched"] @@ history]
    /\ UNCHANGED <<publisherStore, channel, virtualFileSessions, mountLog, posted,
                   lastRequest, lastResponse, probe, poll>>

NextHost ==
    \/ ServiceWorkerClaim
    \/ \E s \in SessionIdentifiers, selectedFileList \in DirectorySelections :
           DirectorySelectionStart(s, selectedFileList)
    \/ DirectorySelectionFinish
    \/ \E value \in UNION { SetOfPaths(deriveJavaScriptFilePaths(
                                           createVirtualFileDescriptors(selection))) :
                                selection \in DirectorySelections } :
           EntrySelection(value)
    \/ OnMessage
    \/ ExecuteRunnerStart
    \/ \E networkResponse \in NetworkResponses : ExecuteRunnerPing(networkResponse)
    \/ ExecuteRunnerList
    \/ \E networkResponse \in NetworkResponses : ExecuteRunnerEntry(networkResponse)

SpecHost == Init /\ [][NextHost]_vars

(***************************************************************************)
(* Vocabulary of the properties                                             *)
(***************************************************************************)
\* the path name /virtual/<id>/<tail>
Url(id, tail) == virtualNamespacePrefix \o id \o <<"/">> \o tail

\* every session-id segment that occurs in a request
RequestIdentifiers == SessionIdentifiers \cup { unknownIdentifier, <<>> }

\* tails that are neither the ping nor the list token
FileTails == RequestTails \ { pingSegment, listSegment }

SetOf(sequence) == { sequence[i] : i \in 1..Len(sequence) }

\* a path with all leading slashes replaced by one
Rooted(path) == <<"/">> \o stripLeadingSlashes(path)

NormalizedPaths(files) == { Rooted(files[i].path) : i \in 1..Len(files) }

\* the last file of the list whose normalized path is path
LastWithPath(files, path) ==
    files[CHOOSE i \in 1..Len(files) :
              /\ Rooted(files[i].path) = path
              /\ \A j \in (i + 1)..Len(files) : Rooted(files[j].path) # path]

\* table is the complete table of the file list: one entry per normalized
\* path, holding the last file with that path
IsTableOf(table, files) ==
    /\ KeySet(table) = NormalizedPaths(files)
    /\ Len(table) = Cardinality(NormalizedPaths(files))
    /\ \A i \in 1..Len(table) :
           /\ table[i].value.content = LastWithPath(files, table[i].key).content
           /\ table[i].value.type = LastWithPath(files, table[i].key).type

\* a message for session s is still in flight
Pending(s) == \E i \in 1..Len(channel) : channel[i].id = s

Registered(id) == MapHas(virtualFileSessions, id)

LastMounted(s) == mountLog[s][Len(mountLog[s])]

Answered(status) == lastResponse.answers = 1 /\ lastResponse.status = status

(***************************************************************************)
(* C1  Re-mount replaces: once mount(A) and then mount(B) of a session are *)
(* both delivered, __list shows exactly the normalized paths of B and       *)
(* every file served for the session is a file of B.                        *)
(***************************************************************************)
C1_RemountReplaces ==
    \A s \in SessionIdentifiers :
        (Len(mountLog[s]) >= 2 /\ ~Pending(s)) =>
            /\ lastRequest = Url(s, listSegment) =>
                   SetOf(lastResponse.payload.keys) = NormalizedPaths(LastMounted(s))
            /\ \A tail \in FileTails :
                   (lastRequest = Url(s, tail) /\ Answered(200)) =>
                       \E i \in 1..Len(LastMounted(s)) :
                           lastResponse.body = LastMounted(s)[i].content

(***************************************************************************)
(* C2  After the announcement of a mount is delivered, __list for the       *)
(* session answers 200 application/json, its keys are (as a set) the        *)
(* normalized paths passed to mount and count is the number of keys.        *)
(***************************************************************************)
C2_ListIsMounted ==
    \A s \in SessionIdentifiers :
        (mountLog[s] # <<>> /\ ~Pending(s) /\ lastRequest = Url(s, listSegment)) =>
            /\ Answered(200)
            /\ lastResponse.contentType = "application/json"
            /\ SetOf(lastResponse.payload.keys) = NormalizedPaths(LastMounted(s))
            /\ lastResponse.payload.count = Len(lastResponse.payload.keys)
            /\ lastResponse.payload.count = Cardinality(NormalizedPaths(LastMounted(s)))

(***************************************************************************)
(* C3  Atomic table replacement: in every state the table of a session is   *)
(* the complete table of one of the file lists mounted for it, and a        *)
(* __list response shows the keys of one such list (or none before the      *)
(* first table is stored), never a mix of two lists or a part of one.       *)
(***************************************************************************)
C3_AtomicReplacement ==
    \A s \in SessionIdentifiers :
        /\ Registered(s) =>
               \E k \in 1..Len(mountLog[s]) :
                   IsTableOf(MapGet(virtualFileSessions, s), mountLog[s][k])
        /\ lastRequest = Url(s, listSegment) =>
               \/ ~Registered(s) /\ lastResponse.payload.keys = <<>>
               \/ \E k \in 1..Len(mountLog[s]) :
                      /\ SetOf(lastResponse.payload.keys) = NormalizedPaths(mountLog[s][k])
                      /\ lastResponse.payload.count
                             = Cardinality(NormalizedPaths(mountLog[s][k]))

\* a session mounted with two different non-empty file lists, both delivered,
\* and its __list shows the second
C3_Witness ==
    \E s \in SessionIdentifiers :
        /\ Len(mountLog[s]) = 2
        /\ mountLog[s][1] # <<>> /\ mountLog[s][2] # <<>>
        /\ NormalizedPaths(mountLog[s][1]) # NormalizedPaths(mountLog[s][2])
        /\ ~Pending(s)
        /\ lastRequest = Url(s, listSegment)
        /\ SetOf(lastResponse.payload.keys) = NormalizedPaths(mountLog[s][2])

(***************************************************************************)
(* C4  Every delivered message with a non-empty id and an array of files    *)
(* (of any length) stores the table of exactly those files under the id,    *)
(* so the id is registered afterwards.                                      *)
(***************************************************************************)
C4_EveryAnnouncementStored ==
    [][ (/\ channel # <<>>
         /\ channel' = Tail(channel)
         /\ Head(channel).id # <<>>
         /\ Head(channel).isArray)
        => /\ MapHas(virtualFileSessions', Head(channel).id)
           /\ IsTableOf(MapGet(virtualFileSessions', Head(channel).id),
                        Head(channel).files) ]_vars

(***************************************************************************)
(* C5  Totality: every request whose path name starts with /virtual/ gets   *)
(* exactly one response, with status 200 or 404.                            *)
(***************************************************************************)
C5_Totality ==
    (/\ Len(lastRequest) >= Len(virtualNamespacePrefix)
     /\ SubSeq(lastRequest, 1, Len(virtualNamespacePrefix)) = virtualNamespacePrefix)
    => /\ lastResponse.answers = 1
       /\ lastResponse.status \in {200, 404}

\* the bare prefix /virtual/ was requested and answered 404
C5_Witness ==
    /\ lastRequest = virtualNamespacePrefix
    /\ Answered(404)

C8_UnknownSessionIs404 ==
    \A id \in RequestIdentifiers :
        ~Registered(id) =>
            /\ \A tail \in FileTails :
                   lastRequest = Url(id, tail) =>
                       /\ Answered(404)
                       /\ lastResponse.body = sessionNotFoundMessage
            /\ lastRequest = virtualNamespacePrefix \o id =>
                   /\ Answered(404)
                   /\ lastResponse.body = sessionNotFoundMessage

\* a file of a session id nobody mounted was requested while another
\* session is registered
C8_Witness ==
    /\ lastRequest = Url(unknownIdentifier, path_util)
    /\ virtualFileSessions # <<>>
    /\ Answered(404)

(***************************************************************************)
(* C9  Candidate order: a file lookup for path p in a registered session    *)
(* returns the content stored under p when p is a key of the table, and     *)
(* the content stored under p.js when p is not a key and p.js is.           *)
(***************************************************************************)
C9_CandidateOrder ==
    \A s \in SessionIdentifiers, tail \in { path_util, path_util_js, path_main_js,
                                            path_dir \o <<"/">> \o pingSegment } :
        (Registered(s) /\ lastRequest = Url(s, tail)) =>
            LET table == MapGet(virtualFileSessions, s)
                p == <<"/">> \o tail
                pjs == p \o <<".", "j", "s">>
            IN /\ MapHas(table, p) =>
                      /\ Answered(200)
                      /\ lastResponse.body = MapGet(table, p).content
               /\ (~MapHas(table, p) /\ MapHas(table, pjs)) =>
                      /\ Answered(200)
                      /\ lastResponse.body = MapGet(table, pjs).content

\* /util requested with both /util and /util.js mounted with different
\* contents
C9_Witness ==
    \E s \in SessionIdentifiers :
        /\ Registered(s)
        /\ lastRequest = Url(s, path_util)
        /\ MapHas(MapGet(virtualFileSessions, s), <<"/">> \o path_util)
        /\ MapHas(MapGet(virtualFileSessions, s), <<"/">> \o path_util_js)
        /\ MapGet(MapGet(virtualFileSessions, s), <<"/">> \o path_util).content
               # MapGet(MapGet(virtualFileSessions, s), <<"/">> \o path_util_js).content
        /\ lastResponse.body = <<"X">>

(***************************************************************************)
(* C10  Directory-index fallback: when "/" followed by the tail ends in     *)
(* "/" (session root or nested directory), the lookup is for that path      *)
(* followed by index.js: the content mounted there is returned, and a miss  *)
(* names that path.                                                         *)
(***************************************************************************)
C10_DirectoryIndex ==
    \A s \in SessionIdentifiers, tail \in { <<>>, path_dir \o <<"/">>, <<"/">> } :
        (/\ Registered(s)
         /\ \/ lastRequest = Url(s, tail)
            \/ tail = <<>> /\ lastRequest = virtualNamespacePrefix \o s) =>
            LET table == MapGet(virtualFileSessions, s)
                indexPath == <<"/">> \o tail
                                 \o <<"i", "n", "d", "e", "x", ".", "j", "s">>
            IN /\ MapHas(table, indexPath) =>
                      /\ Answered(200)
                      /\ lastResponse.body = MapGet(table, indexPath).content
               /\ (~MapHas(table, indexPath)
                     /\ ~MapHas(table, indexPath \o <<".", "j", "s">>)) =>
                      /\ Answered(404)
                      /\ lastResponse.body
                             = <<"N", "o", "t", " ", "f", "o", "u", "n", "d", ":", " ">>
                                   \o indexPath

\* /virtual/<id>/dir/ returned the content of dir/index.js
C10_Witness ==
    \E s \in SessionIdentifiers :
        /\ Registered(s)
        /\ lastRequest = Url(s, path_dir \o <<"/">>)
        /\ Answered(200)
        /\ lastResponse.body = <<"Y">>

(***************************************************************************)
(* Vocabulary of the file-lookup properties                                 *)
(***************************************************************************)
\* the path a file lookup with this tail is for: "/" and the tail, followed
\* by index.js when that ends in "/"
LookupPath(tail) ==
    IF tail = <<>> \/ tail[Len(tail)] = "/"
    THEN <<"/">> \o tail \o <<"i", "n", "d", "e", "x", ".", "j", "s">>
    ELSE <<"/">> \o tail

WithJs(path) == path \o <<".", "j", "s">>

\* the MIME type of the extension table of section 4.1 for a path, text/plain
\* when no extension matches (extensions in lower case)
TableMimeType(path) ==
    IF endsWith(path, <<".", "j", "s">>) \/ endsWith(path, <<".", "m", "j", "s">>)
    THEN "text/javascript"
    ELSE IF endsWith(path, <<".", "j", "s", "o", "n">>) THEN "application/json"
    ELSE IF endsWith(path, <<".", "c", "s", "s">>) THEN "text/css"
    ELSE IF endsWith(path, <<".", "h", "t", "m", "l">>) THEN "text/html"
    ELSE "text/plain"

(***************************************************************************)
(* C11  A matched file lookup answers 200 with the stored content; the      *)
(* Content-Type is the declared type of the file when that is non-empty,    *)
(* else the MIME type inferred from the candidate path that matched (the    *)
(* path itself, or the path with .js when only that is mounted).            *)
(***************************************************************************)
C11_ContentTypeOfMatch ==
    \A s \in SessionIdentifiers, tail \in FileTails :
        (Registered(s) /\ lastRequest = Url(s, tail)) =>
            LET table == MapGet(virtualFileSessions, s)
                p == LookupPath(tail)
                matched == IF MapHas(table, p) THEN p ELSE WithJs(p)
            IN MapHas(table, matched) =>
                   /\ Answered(200)
                   /\ lastResponse.body = MapGet(table, matched).content
                   /\ lastResponse.contentType =
                          IF MapGet(table, matched).type # ""
                          THEN MapGet(table, matched).type
                          ELSE TableMimeType(matched)

\* /util was requested with only /util.js mounted, without a declared type,
\* and served as text/javascript
C11_Witness ==
    \E s \in SessionIdentifiers :
        /\ Registered(s)
        /\ lastRequest = Url(s, path_util)
        /\ ~MapHas(MapGet(virtualFileSessions, s), <<"/">> \o path_util)
        /\ MapHas(MapGet(virtualFileSessions, s), <<"/">> \o path_util_js)
        /\ MapGet(MapGet(virtualFileSessions, s), <<"/">> \o path_util_js).type = ""
        /\ Answered(200)
        /\ lastResponse.contentType = "text/javascript"

(***************************************************************************)
(* C12  Vocabulary: file i of the list is the last one with its normalized  *)
(* path                                                                     *)
(***************************************************************************)
IsLastOccurrence(files, i) ==
    \A j \in (i + 1)..Len(files) : Rooted(files[j].path) # Rooted(files[i].path)

\* the announcement of the last mount of s has been delivered
LastMountDelivered(s) == mountLog[s] # <<>> /\ ~Pending(s)

(***************************************************************************)
(* C12  (as stated) Round trip: for every file {path: p, content: c} of a   *)
(* delivered mount (the last with its normalized path), the request to      *)
(* resolveUrl(p) is answered 200 with body c, and as text/javascript for    *)
(* main.js.                                                                 *)
(***************************************************************************)
C12_RoundTripEveryFile ==
    \A s \in SessionIdentifiers :
        LastMountDelivered(s) =>
            \A i \in 1..Len(LastMounted(s)) :
                LET file == LastMounted(s)[i]
                IN (IsLastOccurrence(LastMounted(s), i)
                      /\ lastRequest = buildFileUrl(s, file.path)) =>
                       /\ Answered(200)
                       /\ lastResponse.body = file.content
                       /\ (Rooted(file.path) = <<"/">> \o path_main_js /\ file.type = "")
                              => lastResponse.contentType = "text/javascript"

(***************************************************************************)
(* C12  (amended) Round trip for every file of a delivered mount whose      *)
(* normalized path is not /__ping or /__list, is not "/" and does not end   *)
(* in "/": the request to resolveUrl(p) is answered 200 with body c, and    *)
(* as text/javascript for main.js.                                          *)
(***************************************************************************)
C12_RoundTripOrdinaryFile ==
    \A s \in SessionIdentifiers :
        LastMountDelivered(s) =>
            \A i \in 1..Len(LastMounted(s)) :
                LET file == LastMounted(s)[i]
                    path == Rooted(file.path)
                IN (/\ IsLastOccurrence(LastMounted(s), i)
                    /\ path \notin { <<"/">> \o pingSegment, <<"/">> \o listSegment }
                    /\ path[Len(path)] # "/"
                    /\ lastRequest = buildFileUrl(s, file.path)) =>
                       /\ Answered(200)
                       /\ lastResponse.body = file.content
                       /\ (path = <<"/">> \o path_main_js /\ file.type = "")
                              => lastResponse.contentType = "text/javascript"

\* main.js of the last mount was requested through its resolveUrl and
\* served with its content
C12_Witness ==
    \E s \in SessionIdentifiers :
        /\ LastMountDelivered(s)
        /\ \E i \in 1..Len(LastMounted(s)) : LastMounted(s)[i].path = path_main_js
        /\ lastRequest = buildFileUrl(s, path_main_js)
        /\ Answered(200)
        /\ lastResponse.body = <<"Z">>
        /\ lastResponse.contentType = "text/javascript"

(***************************************************************************)
(* C13  Malformed announcements are dropped: the delivery of a message      *)
(* whose id is missing or empty, or whose files is missing or not an array, *)
(* leaves the SessionTable as it was, answers nothing and posts nothing.    *)
(***************************************************************************)
C13_MalformedDropped ==
    [][ (/\ channel # <<>>
         /\ channel' = Tail(channel)
         /\ (Head(channel).id = <<>> \/ ~Head(channel).isArray))
        => /\ virtualFileSessions' = virtualFileSessions
           /\ lastResponse' = notIntercepted
           /\ posted' = posted
           /\ publisherStore' = publisherStore ]_vars

\* a session is registered by its one announcement, and the one malformed
\* message posted has been delivered as well
C13_Witness ==
    \E s \in SessionIdentifiers :
        /\ Registered(s)
        /\ Len(mountLog[s]) = 1
        /\ \A t \in SessionIdentifiers \ {s} : mountLog[t] = <<>>
        /\ posted = 2
        /\ channel = <<>>

(***************************************************************************)
(* C14  Vocabulary: the paths held by the Router and the paths in the       *)
(* messages the Publisher broadcast                                         *)
(***************************************************************************)
RouterKeys ==
    UNION { KeySet(virtualFileSessions[i].value) : i \in 1..Len(virtualFileSessions) }

\* the messages of the sessions' mounts still in flight, and the Publisher
\* stores they were taken from
BroadcastPaths ==
    UNION { { channel[i].files[j].path : j \in 1..Len(channel[i].files) } :
                i \in { k \in 1..Len(channel) :
                            channel[k].id \in SessionIdentifiers /\ channel[k].isArray } }
    \cup UNION { { publisherStore[s][j].value.path : j \in 1..Len(publisherStore[s]) } :
                     s \in SessionIdentifiers }

StartsWithOneSlash(path) ==
    /\ path # <<>>
    /\ path[1] = "/"
    /\ Len(path) >= 2 => path[2] # "/"

HasRepeatedSlash(path) ==
    \E i \in 1..(Len(path) - 1) : path[i] = "/" /\ path[i + 1] = "/"

(***************************************************************************)
(* C14  (as stated) Path invariant: every key of every session table and    *)
(* every path broadcast by the Publisher starts with exactly one "/" and    *)
(* has no "//" anywhere.                                                    *)
(***************************************************************************)
C14_NoRepeatedSlashAnywhere ==
    \A path \in RouterKeys \cup BroadcastPaths :
        /\ StartsWithOneSlash(path)
        /\ ~HasRepeatedSlash(path)

(***************************************************************************)
(* C14  (amended) Path invariant: every key of every session table and      *)
(* every path broadcast by the Publisher starts with exactly one "/", and   *)
(* what follows is the raw path without its leading slashes, so a repeated  *)
(* slash further inside a raw path is kept.                                 *)
(***************************************************************************)
C14_OneLeadingSlash ==
    /\ \A path \in RouterKeys \cup BroadcastPaths : StartsWithOneSlash(path)
    /\ \A s \in SessionIdentifiers :
           /\ mountLog[s] # <<>> =>
                  KeySet(publisherStore[s]) = NormalizedPaths(LastMounted(s))
           /\ Registered(s) =>
                  \E k \in 1..Len(mountLog[s]) :
                      KeySet(MapGet(virtualFileSessions, s))
                          = NormalizedPaths(mountLog[s][k])

\* a file mounted as //util.js is held by the Router as /util.js, next to
\* /dir//util
C14_Witness ==
    \E s \in SessionIdentifiers :
        /\ Registered(s)
        /\ \E i \in 1..Len(LastMounted(s)) :
               LastMounted(s)[i].path = <<"/", "/">> \o path_util_js
        /\ <<"/">> \o path_util_js \in KeySet(MapGet(virtualFileSessions, s))
        /\ <<"/">> \o path_dir \o <<"/", "/">> \o path_util
               \in KeySet(MapGet(virtualFileSessions, s))

(***************************************************************************)
(* C15  normalize is idempotent and rooted: for every raw path (a missing   *)
(* or empty one gives "/") normalizing twice equals normalizing once, the   *)
(* result starts with exactly one "/", and the Publisher's and the          *)
(* Router's normalize agree.                                                *)
(***************************************************************************)
C15_NormalizeIdempotentRooted ==
    probe.kind = "normalize" =>
        /\ probe.routerTwice = probe.router
        /\ probe.publisherTwice = probe.publisher
        /\ StartsWithOneSlash(probe.router)
        /\ StartsWithOneSlash(probe.publisher)
        /\ probe.publisher = probe.router
        /\ (probe.missing \/ probe.input = <<>>) => probe.router = <<"/">>

\* //a/ was normalized to /a/
C15_Witness ==
    /\ probe.kind = "normalize"
    /\ probe.input = <<"/", "/", "a", "/">>
    /\ probe.router = <<"/", "a", "/">>

(***************************************************************************)
(* C16  MIME inference is consistent on both sides: for every path whose    *)
(* suffix one of the two sides takes for an extension of the table, in the  *)
(* letter case that side accepts, determineMimeTypeForPath (Publisher) and  *)
(* determineMimeTypeFromPath (Router) return the same MIME type.            *)
(***************************************************************************)
C16_MimeConsistent ==
    (/\ probe.kind = "mime"
     /\ (probe.publisher # "" \/ probe.router # "text/plain"))
    => probe.publisher = probe.router

(***************************************************************************)
(* C17  One writer, never pruned: handling a request leaves the             *)
(* SessionTable as it was, and a session id that has an entry has one       *)
(* after every further step.                                                *)
(***************************************************************************)
C17_OneWriterNeverPruned ==
    [][ /\ lastRequest' # <<>> => virtualFileSessions' = virtualFileSessions
        /\ \A id \in RequestIdentifiers :
               MapHas(virtualFileSessions, id) => MapHas(virtualFileSessions', id) ]_vars

\* a registered session after a second mount of it, with no files, was
\* delivered and a request for it handled
C17_Witness ==
    \E s \in SessionIdentifiers :
        /\ Registered(s)
        /\ Len(mountLog[s]) = 2
        /\ mountLog[s][2] = <<>>
        /\ ~Pending(s)
        /\ lastRequest = Url(s, path_util)

(***************************************************************************)
(* C18  mount builds the Publisher's table from scratch: its keys are the   *)
(* normalized paths of this call's files, each holding the last file with   *)
(* that path under its normalized path, nothing of an earlier mount stays,  *)
(* and exactly one message {id, files: values(table)} is posted, whatever   *)
(* the Router has stored.                                                   *)
(***************************************************************************)
C18_MountFromScratch ==
    [][ \A s \in SessionIdentifiers :
            mountLog'[s] # mountLog[s] =>
                LET files == mountLog'[s][Len(mountLog'[s])]
                    table == publisherStore'[s]
                IN /\ IsTableOf(table, files)
                   /\ \A i \in 1..Len(table) : table[i].value.path = table[i].key
                   /\ Len(channel') = Len(channel) + 1
                   /\ SubSeq(channel', 1, Len(channel)) = channel
                   /\ channel'[Len(channel')] =
                          [id |-> s, isArray |-> TRUE,
                           files |-> [i \in 1..Len(table) |-> table[i].value]]
                   /\ virtualFileSessions' = virtualFileSessions ]_vars

\* a session object mounted twice, with different paths, holds the table of
\* the second list, in which two files had the same normalized path
C18_Witness ==
    \E s \in SessionIdentifiers :
        /\ Len(mountLog[s]) = 2
        /\ NormalizedPaths(mountLog[s][1]) \ NormalizedPaths(mountLog[s][2]) # {}
        /\ Cardinality(NormalizedPaths(mountLog[s][2])) < Len(mountLog[s][2])
        /\ KeySet(publisherStore[s]) = NormalizedPaths(mountLog[s][2])

(***************************************************************************)
(* C19  A file lookup in a registered session with neither candidate in     *)
(* the table is answered 404 "Not found: " followed by the requested path   *)
(* (with index.js for a trailing slash, without the .js suffix).            *)
(***************************************************************************)
C19_MissNamesRequestedPath ==
    \A s \in SessionIdentifiers, tail \in FileTails :
        (/\ Registered(s)
         /\ \/ lastRequest = Url(s, tail)
            \/ tail = <<>> /\ lastRequest = virtualNamespacePrefix \o s) =>
            LET table == MapGet(virtualFileSessions, s)
                p == LookupPath(tail)
            IN (~MapHas(table, p) /\ ~MapHas(table, WithJs(p))) =>
                   /\ Answered(404)
                   /\ lastResponse.body
                          = <<"N", "o", "t", " ", "f", "o", "u", "n", "d", ":", " ">> \o p

\* /virtual/<id>/main.js missed in a registered session
C19_Witness ==
    \E s \in SessionIdentifiers :
        /\ Registered(s)
        /\ lastRequest = Url(s, path_main_js)
        /\ Answered(404)
        /\ lastResponse.body
               = <<"N", "o", "t", " ", "f", "o", "u", "n", "d", ":", " ", "/">>
                     \o path_main_js

(***************************************************************************)
(* C20  Vocabulary: a fetch outcome that counts as ready                    *)
(***************************************************************************)
Ready(outcome) ==
    /\ outcome.settled = "fulfilled"
    /\ outcome.ok
    /\ outcome.hasContentType
    /\ outcome.contentType \in { contentType_textJavascript,
                                 contentType_applicationJavascript }

PollSafety ==
    poll.pc # "idle" =>
        /\ poll.fetches <= 30
        /\ (poll.pc = "fetch" /\ poll.fetches > 0) => ~Ready(poll.outcome)
        /\ poll.pc = "delay" => ~Ready(poll.outcome)
        /\ poll.pc = "done" =>
               /\ poll.result = Ready(poll.outcome)
               /\ ~poll.result => poll.fetches = 30

(***************************************************************************)
(* C20  Readiness poll: waitForEntryModule makes at most 30 fetches, every  *)
(* attempt before the last one made was not ready, it returns true exactly  *)
(* when the last attempt made was an ok response with a content-type        *)
(* containing "javascript", false only after 30 attempts that were not      *)
(* ready, and it always returns.                                            *)
(***************************************************************************)
C20_ReadinessPoll == []PollSafety /\ <>(poll.pc = "done")

\* the poll returned true at its 30th attempt
C20_Witness ==
    /\ poll.pc = "done"
    /\ poll.result
    /\ poll.fetches = 30

(***************************************************************************)
(* C21  Vocabulary: the relative path without its leading slashes, found    *)
(* as the suffix that does not start with "/" after a prefix of slashes     *)
(***************************************************************************)
WithoutLeadingSlashes(path) ==
    LET cut == CHOOSE k \in 0..Len(path) :
                   /\ \A j \in 1..k : path[j] = "/"
                   /\ (k < Len(path) => path[k + 1] # "/")
    IN SubSeq(path, cut + 1, Len(path))

(***************************************************************************)
(* C21  Base path and URL of a file: getBasePath is "/virtual/" followed by *)
(* the session id and does not end with a slash; buildFileUrl is the base   *)
(* path, one "/", and the relative path without its leading slashes; so a   *)
(* relative path and the same path with one more leading slash have the     *)
(* same URL, and the URL lies in the namespace with the session's id as     *)
(* its session-id segment.                                                  *)
(***************************************************************************)
C21_BasePathAndFileUrl ==
    probe.kind = "url" =>
        /\ probe.basePath = <<"/", "v", "i", "r", "t", "u", "a", "l", "/">>
                                \o probe.sessionIdentifier
        /\ probe.basePath[Len(probe.basePath)] # "/"
        /\ probe.url = probe.basePath \o <<"/">> \o WithoutLeadingSlashes(probe.input)
        /\ probe.urlOfSlashed = probe.url
        /\ isVirtualNamespacePath(probe.url)
        /\ sessionIdentifierOf(split(probe.url)) = probe.sessionIdentifier

\* the URL of //a/ in session s is /virtual/s/a/
C21_Witness ==
    /\ probe.kind = "url"
    /\ probe.sessionIdentifier = <<"s">>
    /\ probe.input = <<"/", "/", "a", "/">>
    /\ probe.url = <<"/", "v", "i", "r", "t", "u", "a", "l", "/", "s", "/", "a", "/">>

(***************************************************************************)
(* C22  Vocabulary: the announcements of a session and the answer from a    *)
(* table                                                                    *)
(***************************************************************************)
\* the number of announcements of the mounts of s that are still in flight
InFlight(s) == Cardinality({ i \in 1..Len(channel) : channel[i].id = s /\ channel[i].isArray })

\* the number of announcements of the mounts of s the Router has handled
Delivered(s) == Len(mountLog[s]) - InFlight(s)

\* the file list of the last announcement of s the Router has handled
LastDelivered(s) == mountLog[s][Delivered(s)]

\* the response is the answer to a lookup of path p from the table of a
\* file list: the file at p, else the file at p.js, else 404 naming p
AnsweredFromTableOf(files, p) ==
    IF p \in NormalizedPaths(files)
    THEN Answered(200) /\ lastResponse.body = LastWithPath(files, p).content
    ELSE IF WithJs(p) \in NormalizedPaths(files)
    THEN Answered(200) /\ lastResponse.body = LastWithPath(files, WithJs(p)).content
    ELSE /\ Answered(404)
         /\ lastResponse.body
                = <<"N", "o", "t", " ", "f", "o", "u", "n", "d", ":", " ">> \o p

AnsweredSessionNotFound ==
    /\ Answered(404)
    /\ lastResponse.body = <<"S", "e", "s", "s", "i", "o", "n", " ",
                             "n", "o", "t", " ", "f", "o", "u", "n", "d">>

(***************************************************************************)
(* C22  Announcement/request race: a file lookup for session S the Router   *)
(* handles before the first announcement of S is delivered is answered      *)
(* 404 "Session not found"; the same lookup handled after an announcement   *)
(* of S was delivered is answered from the table of the last delivered      *)
(* announcement; the request is answered in the step that handles it,       *)
(* whatever is still in flight.                                             *)
(***************************************************************************)
C22_RaceBeforeAndAfterDelivery ==
    \A s \in SessionIdentifiers, tail \in FileTails :
        lastRequest = Url(s, tail) =>
            IF Delivered(s) = 0
            THEN AnsweredSessionNotFound
            ELSE AnsweredFromTableOf(LastDelivered(s), LookupPath(tail))

(***************************************************************************)
(* C23  Vocabulary: what a step of executeRunner may do to the iframe and   *)
(* the status message                                                       *)
(***************************************************************************)
GateStep ==
    /\ host'.iframe # host.iframe =>
           /\ host.run.pc = "entry"
           /\ host.run.events = <<"ping ok", "list logged">>
           /\ host'.lastRun.outcome = "launched"
           /\ host'.lastRun.entryStatus \in 200..299
           /\ Registered(host.run.sessionIdentifier)
           /\ host'.lastRun.registeredAtEntryFetch
           /\ host'.iframe.src
                  = <<"/", "r", "u", "n", "n", "e", "r", ".", "h", "t", "m", "l",
                      "?", "e", "n", "t", "r", "y", "=">>
                        \o encodeURIComponent(host.run.absoluteEntryModuleUrl)
    /\ (host.run.pc # "idle" /\ host'.run.pc = "idle"
            /\ host'.lastRun.outcome # "launched") =>
           /\ host'.iframe = host.iframe
           /\ host'.statusMessage.message
                  = (IF host.run.pc = "ping" THEN "SW not ready (no ping)"
                     ELSE "entry not reachable: ")

(***************************************************************************)
(* C23  Host readiness gate: a step of executeRunner changes the iframe     *)
(* only when the ping fetch of this activation returned the text "ok",      *)
(* then the list was fetched, and then the entry fetch returned a response  *)
(* with a status from 200 to 299, and the session of the activation has a   *)
(* table in the Router when the entry fetch is answered; the iframe then    *)
(* gets the runner page for the entry URL. A step in which executeRunner    *)
(* returns after a failed check sets the status message of that check and   *)
(* leaves the iframe as it was.                                             *)
(***************************************************************************)
C23_ReadinessGate == [][GateStep]_vars

\* the runner page was loaded for the entry /main.js of session s
C23_Witness ==
    /\ host.lastRun.outcome = "launched"
    /\ host.lastRun.sessionIdentifier = <<"s">>
    /\ host.iframe.src # <<>>
    /\ host.entryFilePath = <<"/">> \o path_main_js

\* executeRunner returned after the entry fetch was answered 404 while the
\* announcement of its session was still in flight
C23_WitnessEntryFailed ==
    /\ host.lastRun.outcome = "entry failed"
    /\ ~host.lastRun.registeredAtEntryFetch
    /\ host.iframe.src = <<>>

(***************************************************************************)
(* C24  Session isolation: the delivery of a message with session id S      *)
(* leaves every other session id as it was: it has a table after the step  *)
(* exactly if it had one before, the same table, and every request          *)
(* addressed to it gets the same response after the step as before.         *)
(***************************************************************************)
C24_SessionIsolation ==
    [][ (channel # <<>> /\ channel' = Tail(channel)) =>
            \A other \in RequestIdentifiers \ { Head(channel).id } :
                /\ MapHas(virtualFileSessions', other) = MapHas(virtualFileSessions, other)
                /\ MapHas(virtualFileSessions, other) =>
                       MapGet(virtualFileSessions', other)
                           = MapGet(virtualFileSessions, other)
                /\ \A tail \in RequestTails :
                       handleVirtualRequest(Url(other, tail), virtualFileSessions')
                           = handleVirtualRequest(Url(other, tail), virtualFileSessions)
      ]_vars

\* the announcements of both sessions were delivered, the one of another
\* file list last, and a file of the session registered first is served
C24_Witness ==
    \E s \in SessionIdentifiers, other \in SessionIdentifiers :
        /\ s # other
        /\ channel = <<>>
        /\ Len(mountLog[s]) = 1
        /\ Len(mountLog[other]) = 1
        /\ mountLog[s] # mountLog[other]
        /\ Len(virtualFileSessions) = 2
        /\ virtualFileSessions[1].key = other
        /\ virtualFileSessions[2].key = s
        /\ lastRequest = Url(other, path_util_js)
        /\ Answered(200)

(***************************************************************************)
(* C25  Control segments shadow files: in a session whose table has the     *)
(* key /__ping or /__list, the request /virtual/<id>/__ping is answered     *)
(* 200 text/plain "ok" and /virtual/<id>/__list 200 application/json with   *)
(* the keys of the table, never with the content of the file mounted under  *)
(* that key; /virtual/<id>/dir/__ping is a file lookup of /dir/__ping,      *)
(* answered with the file at that key, else at /dir/__ping.js, else 404     *)
(* naming /dir/__ping.                                                      *)
(***************************************************************************)
C25_ControlSegmentsShadowFiles ==
    \A s \in SessionIdentifiers :
        Registered(s) =>
            LET table == MapGet(virtualFileSessions, s)
                pingKey == <<"/", "_", "_", "p", "i", "n", "g">>
                listKey == <<"/", "_", "_", "l", "i", "s", "t">>
                nestedKey == <<"/">> \o path_dir \o pingKey
            IN /\ (MapHas(table, pingKey) \/ MapHas(table, listKey)) =>
                      /\ lastRequest = virtualNamespacePrefix \o s \o pingKey =>
                             /\ Answered(200)
                             /\ lastResponse.contentType = "text/plain"
                             /\ lastResponse.body = <<"o", "k">>
                             /\ MapHas(table, pingKey) =>
                                    lastResponse.body # MapGet(table, pingKey).content
                      /\ lastRequest = virtualNamespacePrefix \o s \o listKey =>
                             /\ Answered(200)
                             /\ lastResponse.contentType = "application/json"
                             /\ lastResponse.payload.keys = MapKeys(table)
                             /\ MapHas(table, listKey) =>
                                    lastResponse.body # MapGet(table, listKey).content
               /\ lastRequest = virtualNamespacePrefix \o s \o nestedKey =>
                      IF MapHas(table, nestedKey)
                      THEN /\ Answered(200)
                           /\ lastResponse.body = MapGet(table, nestedKey).content
                           /\ lastResponse.contentType = MapGet(table, nestedKey).type
                      ELSE IF MapHas(table, WithJs(nestedKey))
                      THEN /\ Answered(200)
                           /\ lastResponse.body = MapGet(table, WithJs(nestedKey)).content
                      ELSE /\ Answered(404)
                           /\ lastResponse.body
                                  = <<"N", "o", "t", " ", "f", "o", "u", "n", "d", ":", " ">>
                                        \o nestedKey

\* a session with the files __ping and dir/__ping: /virtual/<id>/dir/__ping
\* was served with the content and type of dir/__ping
C25_Witness ==
    \E s \in SessionIdentifiers :
        /\ Registered(s)
        /\ MapHas(MapGet(virtualFileSessions, s), <<"/">> \o pingSegment)
        /\ lastRequest = Url(s, path_dir \o <<"/">> \o pingSegment)
        /\ Answered(200)
        /\ lastResponse.body = <<"Q">>
        /\ lastResponse.contentType = "application/json"

\* in a session with the file __ping, /virtual/<id>/__ping was answered "ok"
C25_WitnessPing ==
    \E s \in SessionIdentifiers :
        /\ Registered(s)
        /\ MapHas(MapGet(virtualFileSessions, s), <<"/">> \o pingSegment)
        /\ MapGet(MapGet(virtualFileSessions, s), <<"/">> \o pingSegment).content = <<"P">>
        /\ lastRequest = Url(s, pingSegment)
        /\ lastResponse.body = <<"o", "k">>

(***************************************************************************)
(* C26  Empty session id and paths outside the namespace: the request       *)
(* /virtual/ and every request /virtual//<tail>, with __ping and __list as  *)
(* the tail as well and whatever sessions are registered, is answered 404   *)
(* "Session not found"; a request whose path does not start with            *)
(* "/virtual/", such as /virtual itself, gets no response from the Router.  *)
(***************************************************************************)
C26_EmptyIdentifierAndPassThrough ==
    LET prefix == <<"/", "v", "i", "r", "t", "u", "a", "l", "/">>
        inNamespace == /\ Len(lastRequest) >= Len(prefix)
                       /\ SubSeq(lastRequest, 1, Len(prefix)) = prefix
    IN /\ (\/ lastRequest = prefix
           \/ \E tail \in RequestTails : lastRequest = prefix \o <<"/">> \o tail) =>
              /\ Answered(404)
              /\ lastResponse.body = <<"S", "e", "s", "s", "i", "o", "n", " ",
                                       "n", "o", "t", " ", "f", "o", "u", "n", "d">>
       /\ (lastRequest # <<>> /\ ~inNamespace) =>
              /\ lastResponse.answers = 0
              /\ lastResponse = notIntercepted

\* /virtual//__list was answered 404 while a session is registered
C26_Witness ==
    /\ lastRequest = Url(<<>>, listSegment)
    /\ virtualFileSessions # <<>>
    /\ Answered(404)

\* /virtual was requested and not answered
C26_WitnessPassThrough ==
    /\ lastRequest = <<"/", "v", "i", "r", "t", "u", "a", "l">>
    /\ lastResponse.answers = 0

(***************************************************************************)
(* C27  Vocabulary: the file name of a path and the first path of a list    *)
(* with one of two file names                                               *)
(***************************************************************************)
\* the part of the path after its last "/"
FileNameOf(path) ==
    LET slashes == { i \in 1..Len(path) : path[i] = "/" }
        last == IF slashes = {} THEN 0
                ELSE CHOOSE i \in slashes : \A j \in slashes : j <= i
    IN SubSeq(path, last + 1, Len(path))

IsNamed(path, names) == toLowerCase(FileNameOf(path)) \in names

MainNames == { <<"m", "a", "i", "n", ".", "j", "s">>,
               <<"m", "a", "i", "n", ".", "m", "j", "s">> }

IndexNames == { <<"i", "n", "d", "e", "x", ".", "j", "s">>,
                <<"i", "n", "d", "e", "x", ".", "m", "j", "s">> }

\* path is the first element of paths with one of the names
IsFirstNamed(path, paths, names) ==
    \E i \in 1..Len(paths) :
        /\ paths[i] = path
        /\ IsNamed(paths[i], names)
        /\ \A j \in 1..(i - 1) : ~IsNamed(paths[j], names)

(***************************************************************************)
(* C27  Entry selection: selectPreferredEntryFilePath returns "" for an     *)
(* empty list; for any other list the first path whose file name is         *)
(* main.js or main.mjs in any letter case, when there is none the first     *)
(* whose file name is index.js or index.mjs, and when there is none either  *)
(* the first element; the result is "" or an element of the list.           *)
(***************************************************************************)
C27_EntrySelection ==
    probe.kind = "entry" =>
        LET paths == probe.input
            hasMain == \E i \in 1..Len(paths) : IsNamed(paths[i], MainNames)
            hasIndex == \E i \in 1..Len(paths) : IsNamed(paths[i], IndexNames)
        IN /\ paths = <<>> => probe.result = <<>>
           /\ hasMain => IsFirstNamed(probe.result, paths, MainNames)
           /\ (~hasMain /\ hasIndex) => IsFirstNamed(probe.result, paths, IndexNames)
           /\ (paths # <<>> /\ ~hasMain /\ ~hasIndex) => probe.result = paths[1]
           /\ probe.result = <<>> \/ probe.result \in SetOf(paths)

\* for /index.js, /d/Main.MJS, main.js the entry is /d/Main.MJS
C27_Witness ==
    /\ probe.kind = "entry"
    /\ probe.input = << <<"/", "i", "n", "d", "e", "x", ".", "j", "s">>,
                        <<"/", "d", "/", "M", "a", "i", "n", ".", "M", "J", "S">>,
                        <<"m", "a", "i", "n", ".", "j", "s">> >>
    /\ probe.result = <<"/", "d", "/", "M", "a", "i", "n", ".", "M", "J", "S">>

====
